---- MODULE Spec2Model ----
(***************************************************************************)
(* The Codex rich-text example (site/examples/codex.js): an editor built   *)
(* by layering the feature modules withChecklists, withImages, withLinks   *)
(* and withMathBlocks over the base editor, with the toolbar commands      *)
(* toggleBlock, toggleMark, insertLink and insertImage.                    *)
(*                                                                         *)
(* The document is kept as the sequence of its leaf blocks in document     *)
(* order.  Every leaf block carries the chain of list containers around it *)
(* (outermost first) and `join`, the number of those containers it shares  *)
(* with the block before it; the children of a block are its text chunks,  *)
(* each with its marks and, in the same way, the chain of link elements    *)
(* around it.  This encodes the element tree: two neighbours are children  *)
(* of the same container at depth k exactly when the second joins at       *)
(* least k containers of the first.                                        *)
(***************************************************************************)
EXTENDS Integers, Sequences, FiniteSets, TLC

VARIABLES
    chain,      \* the feature modules applied to the base editor, innermost first
    children,   \* editor.children: the leaf blocks in document order
    selection,  \* editor.selection: anchor and focus, or NoSelection
    marks,      \* editor.marks: the pending marks, or NoMarks (null)
    readers,    \* the FileReaders created by withImages.insertData
    log,        \* the overrides and base implementations the last operation ran, in order
    last        \* the last operation and its arguments

vars == <<chain, children, selection, marks, readers, log, last>>

----------------------------------------------------------------------------
(* Bounds of the model *)

InitBlocks == 3     \* blocks of initialValue the document starts with
InitLeaves == 2     \* text leaves kept of each of those blocks
MaxChain == 4       \* feature modules layered in the composition facet
MaxInserts == 1     \* insertions (text, links, images) into the document
MaxReaders == 2     \* FileReaders created by dropped files

----------------------------------------------------------------------------
(* Small helpers *)

Min2(a, b) == IF a <= b THEN a ELSE b

Min3(a, b, c) == Min2(a, Min2(b, c))

MinOf(S) == CHOOSE x \in S : \A y \in S : x <= y

Front(s) == SubSeq(s, 1, Len(s) - 1)

Range(s) == {s[i] : i \in 1..Len(s)}

RECURSIVE SumOver(_, _)
SumOver(f, S) ==
    IF S = {} THEN 0
    ELSE LET x == CHOOSE y \in S : TRUE IN f[x] + SumOver(f, S \ {x})

----------------------------------------------------------------------------
(* Constants of the program *)

LIST_TYPES == {"numbered-list", "bulleted-list"}

\* The formats of the BlockButtons modelled (a subset of the toolbar's)
BlockFormats ==
    {"heading-one", "check-list-item", "numbered-list", "bulleted-list"}

\* The formats of the MarkButtons and HOTKEYS modelled
MarkFormats == {"bold", "italic"}

Modules == {"withChecklists", "withImages", "withLinks", "withMathBlocks"}

\* withMathBlocks(withLinks(withImages(withChecklists(...)))), innermost first
CodexChain == <<"withChecklists", "withImages", "withLinks", "withMathBlocks">>

ElementTypes ==
    {"paragraph", "heading-one", "block-quote", "check-list-item", "list-item",
     "numbered-list", "bulleted-list", "link", "image", "math-block"}

----------------------------------------------------------------------------
(* The document *)

Leaf(text, ms) == [text |-> text, marks |-> ms, links |-> <<>>, join |-> 0]

Block(type, kids) ==
    [type |-> type, lists |-> <<>>, join |-> 0, children |-> kids, url |-> ""]

\* initialValue, its text leaves abbreviated
InitialValue ==
    << Block("paragraph",
             << Leaf("This", {}), Leaf("rich", {"bold"}), Leaf("text", {}),
                Leaf("much", {"italic"}), Leaf("better", {}) >>),
       Block("paragraph",
             << Leaf("Since", {}), Leaf("bold", {"bold"}), Leaf("or", {}) >>),
       Block("check-list-item", << Leaf("left", {}) >>),
       Block("check-list-item", << Leaf("right", {}) >>),
       Block("check-list-item", << Leaf("cross", {}) >>),
       Block("block-quote", << Leaf("quote", {}) >>),
       Block("paragraph", << Leaf("Try", {}) >>) >>

Prefix(s, n) == SubSeq(s, 1, Min2(n, Len(s)))

\* The part of initialValue the model starts from
initialValue ==
    [i \in 1..Min2(InitBlocks, Len(InitialValue)) |->
        [InitialValue[i] EXCEPT !.children = Prefix(@, InitLeaves)]]

Point(b, o) == [b |-> b, o |-> o]

NoSelection == [anchor |-> Point(0, 0), focus |-> Point(0, 0)]

NoMarks == [set |-> FALSE, val |-> {}]

NoOp == [op |-> "none", arg |-> "", files |-> <<>>]

Before(p, q) == p.b < q.b \/ (p.b = q.b /\ p.o <= q.o)

HasSelection(sel) == sel.anchor.b # 0

isCollapsed(sel) == sel.anchor = sel.focus

StartOf(sel) == IF Before(sel.anchor, sel.focus) THEN sel.anchor ELSE sel.focus

EndOf(sel) == IF Before(sel.anchor, sel.focus) THEN sel.focus ELSE sel.anchor

\* The editor as one value, for the operators that transform it
Editor ==
    [chain |-> chain, children |-> children, selection |-> selection,
     marks |-> marks, readers |-> readers, log |-> <<>>]

\* The editor after an operation that yields r
SetEditor(e) ==
    \E r \in {e} :
        /\ children' = r.children
        /\ selection' = r.selection
        /\ marks' = r.marks
        /\ readers' = r.readers
        /\ log' = r.log

\* The leaf blocks a selection touches
SelectedBlocks(e) ==
    IF HasSelection(e.selection)
    THEN StartOf(e.selection).b .. EndOf(e.selection).b
    ELSE {}

----------------------------------------------------------------------------
(* The feature modules' isVoid and isInline, and their composition *)

\* withMathBlocks' isVoid answering by itself, the captured isVoid not called
withMathBlocks_isVoid_noDelegate(type, prev) == type = "math-block"

\* withMathBlocks: editor.isVoid; prev is the captured isVoid's answer
withMathBlocks_isVoid(type, prev) == IF type = "math-block" THEN TRUE ELSE prev

\* withImages: editor.isVoid
withImages_isVoid(type, prev) == IF type = "image" THEN TRUE ELSE prev

\* withLinks: editor.isInline
withLinks_isInline(type, prev) == IF type = "link" THEN TRUE ELSE prev

\* createEditor's isVoid and isInline
base_isVoid(type) == FALSE

base_isInline(type) == FALSE

\* editor.isVoid of the editor composed as ch (innermost first)
RECURSIVE isVoid(_, _)
isVoid(ch, type) ==
    IF ch = <<>> THEN base_isVoid(type)
    ELSE LET prev == isVoid(Front(ch), type)
             m == ch[Len(ch)]
         IN  CASE m = "withMathBlocks" -> withMathBlocks_isVoid(type, prev)
               [] m = "withImages" -> withImages_isVoid(type, prev)
               [] OTHER -> prev

\* editor.isInline of the editor composed as ch
RECURSIVE isInline(_, _)
isInline(ch, type) ==
    IF ch = <<>> THEN base_isInline(type)
    ELSE LET prev == isInline(Front(ch), type)
             m == ch[Len(ch)]
         IN  CASE m = "withLinks" -> withLinks_isInline(type, prev)
               [] OTHER -> prev

\* The composition facet: feature modules are applied one over the other
Layer(m) ==
    /\ Len(chain) < MaxChain
    /\ chain' = Append(chain, m)
    /\ UNCHANGED <<children, selection, marks, readers, log, last>>

withMathBlocks == Layer("withMathBlocks")

withLinks == Layer("withLinks")

withImages == Layer("withImages")

withChecklists == Layer("withChecklists")

InitCompose ==
    /\ chain = <<>>
    /\ children = initialValue
    /\ selection = NoSelection
    /\ marks = NoMarks
    /\ readers = <<>>
    /\ log = <<>>
    /\ last = NoOp

NextCompose == withMathBlocks \/ withLinks \/ withImages \/ withChecklists

SpecCompose == InitCompose /\ [][NextCompose]_vars

ClaimsVoid(m, type) ==
    \/ m = "withMathBlocks" /\ type = "math-block"
    \/ m = "withImages" /\ type = "image"

ClaimsInline(m, type) == m = "withLinks" /\ type = "link"

InsertAt(ch, i, m) == SubSeq(ch, 1, i) \o <<m>> \o SubSeq(ch, i + 1, Len(ch))

\* C3: for every element type, the composed isVoid / isInline is true exactly
\* when some module of the chain claims the type, and layering one more
\* module that does not claim the type, at any position of the chain, leaves
\* both answers as they were.
ClassificationStable ==
    \A type \in ElementTypes :
        /\ isVoid(chain, type) = (\E i \in 1..Len(chain) : ClaimsVoid(chain[i], type))
        /\ isInline(chain, type) = (\E i \in 1..Len(chain) : ClaimsInline(chain[i], type))
        /\ \A m \in Modules, i \in 0..Len(chain) :
            /\ ~ClaimsVoid(m, type) =>
                    isVoid(InsertAt(chain, i, m), type) = isVoid(chain, type)
            /\ ~ClaimsInline(m, type) =>
                    isInline(InsertAt(chain, i, m), type) = isInline(chain, type)

\* C3's case: image and link are claimed by inner modules, with modules that
\* do not claim them layered over those
ClassificationStable_Witness ==
    /\ Len(chain) >= 3
    /\ chain[1] = "withImages"
    /\ chain[2] = "withLinks"
    /\ chain[Len(chain)] = "withMathBlocks"
    /\ isVoid(chain, "image")
    /\ isInline(chain, "link")

----------------------------------------------------------------------------
(* Wrapping and unwrapping.  W is a sequence of [c |-> chain, j |-> join]:   *)
(* the containers around each leaf of a sequence of leaves.                  *)

Wraps(items, field) ==
    [i \in 1..Len(items) |-> [c |-> items[i][field], j |-> items[i].join]]

\* Leaves i and k lie in the same container at depth n
SameContainer(W, i, k, n) ==
    /\ Len(W[i].c) >= n
    /\ Len(W[k].c) >= n
    /\ \A x \in (Min2(i, k) + 1)..(IF i <= k THEN k ELSE i) : W[x].j >= n

\* Lifts leaves s..e out of their lowest container, splitting it around them
LiftRange(W, s, e) ==
    LET lifted(i) == i \in s..e /\ Len(W[i].c) > 0
        c2(i) == IF lifted(i) THEN Front(W[i].c) ELSE W[i].c
    IN  [i \in 1..Len(W) |->
            [c |-> c2(i),
             j |-> IF i = 1 THEN 0
                   ELSE Min3(W[i].j, Len(c2(i - 1)), Len(c2(i)))]]

\* Removes, whole, the lowest container of each of the leaves s..e
UnwrapRange(W, s, e) ==
    LET R(k) == {n \in 1..Len(W[k].c) :
                    \E i \in s..e : Len(W[i].c) = n /\ SameContainer(W, i, k, n)}
        keep(k) == {n \in 1..Len(W[k].c) : n \notin R(k)}
        SelectIdx(k) == [n \in 1..Len(W[k].c) |-> n]
        pick(k) == SelectSeq(SelectIdx(k), LAMBDA n : n \in keep(k))
    IN  [k \in 1..Len(W) |->
            [c |-> [x \in 1..Len(pick(k)) |-> W[k].c[pick(k)[x]]],
             j |-> W[k].j - Cardinality({n \in R(k) : n <= W[k].j})]]

\* Puts one new container tag around the leaves s..e, below what they share
WrapRange(W, s, e, tag) ==
    LET d == IF s = e THEN Len(W[s].c)
             ELSE MinOf({W[i].j : i \in (s + 1)..e})
    IN  [i \in 1..Len(W) |->
            IF i \in s..e
            THEN [c |-> SubSeq(W[i].c, 1, d) \o <<tag>>
                          \o SubSeq(W[i].c, d + 1, Len(W[i].c)),
                  j |-> IF i = s THEN Min2(W[i].j, d) ELSE W[i].j + 1]
            ELSE [c |-> W[i].c,
                  j |-> IF i = e + 1 THEN Min2(W[i].j, d) ELSE W[i].j]]

SetLists(e, W) ==
    [e EXCEPT !.children =
        [i \in 1..Len(@) |-> [@[i] EXCEPT !.lists = W[i].c, !.join = W[i].j]]]

----------------------------------------------------------------------------
(* Block transforms *)

\* Transforms.unwrapNodes(editor, {match: n => LIST_TYPES.includes(n.type), split: true})
unwrapNodes_lists(e) ==
    IF ~HasSelection(e.selection) THEN e
    ELSE SetLists(e, LiftRange(Wraps(e.children, "lists"),
                               StartOf(e.selection).b, EndOf(e.selection).b))

\* Transforms.setNodes(editor, {type}): the lowest blocks of the selection
setNodes_type(e, type) ==
    [e EXCEPT !.children =
        [i \in 1..Len(@) |->
            IF i \in SelectedBlocks(e) THEN [@[i] EXCEPT !.type = type] ELSE @[i]]]

\* Transforms.wrapNodes(editor, {type: format, children: []})
wrapNodes_list(e, format) ==
    IF ~HasSelection(e.selection) THEN e
    ELSE SetLists(e, WrapRange(Wraps(e.children, "lists"),
                               StartOf(e.selection).b, EndOf(e.selection).b,
                               format))

\* Chunk k of block b lies within the selection
InRange(sel, b, k) ==
    /\ HasSelection(sel)
    /\ Before(StartOf(sel), Point(b, k - 1))
    /\ Before(Point(b, k), EndOf(sel))

\* The text node a caret is in: the one before it; at a block's start the
\* block's first text node, which is empty (0) when a link comes first
CaretLeaf(e) ==
    LET p == e.selection.anchor
        kids == e.children[p.b].children
    IN  IF p.o > 0 THEN p.o
        ELSE IF kids # <<>> /\ kids[1].links = <<>> THEN 1 ELSE 0

\* The text nodes of block b the selection lies in
SelectedLeaves(e, b) ==
    IF ~HasSelection(e.selection) THEN {}
    ELSE IF isCollapsed(e.selection)
    THEN (IF b = e.selection.anchor.b THEN {CaretLeaf(e)} \ {0} ELSE {})
    ELSE {k \in 1..Len(e.children[b].children) : InRange(e.selection, b, k)}

\* Editor.nodes(editor, {match: n => n.type === type}) yields a node:
\* a block of the selection, a list around one, or a link in the selection
NodeOfType(e, type) ==
    \E i \in SelectedBlocks(e) :
        \/ e.children[i].type = type
        \/ type \in Range(e.children[i].lists)
        \/ /\ type = "link"
           /\ \E k \in SelectedLeaves(e, i) : e.children[i].children[k].links # <<>>

\* isBlockActive reading only the block the selection starts in
isBlockActive_firstBlock(e, format) ==
    /\ HasSelection(e.selection)
    /\ e.children[StartOf(e.selection).b].type = format

isBlockActive(e, format) == NodeOfType(e, format)

\* toggleBlock without the unwrapNodes call before the new wrap
toggleBlock_noUnwrap(e, format) ==
    LET isActive == isBlockActive(e, format)
        isList == format \in LIST_TYPES
        e2 == setNodes_type(e, IF isActive THEN "paragraph"
                               ELSE IF isList THEN "list-item" ELSE format)
    IN  IF ~isActive /\ isList THEN wrapNodes_list(e2, format) ELSE e2

toggleBlock(e, format) ==
    LET isActive == isBlockActive(e, format)
        isList == format \in LIST_TYPES
        e1 == unwrapNodes_lists(e)
        e2 == setNodes_type(e1, IF isActive THEN "paragraph"
                                ELSE IF isList THEN "list-item" ELSE format)
    IN  IF ~isActive /\ isList THEN wrapNodes_list(e2, format) ELSE e2

----------------------------------------------------------------------------
(* Actions *)

\* The user, or Transforms.select / deselect, moves the selection
Select(sel) ==
    /\ sel # selection
    /\ last' = [op |-> "select", arg |-> "", files |-> <<>>]
    /\ selection' = sel
    /\ marks' = NoMarks
    /\ log' = <<>>
    /\ UNCHANGED <<chain, children, readers>>

\* BlockButton's onMouseDown
ToggleBlock(format) ==
    /\ last' = [op |-> "toggleBlock", arg |-> format, files |-> <<>>]
    /\ SetEditor(toggleBlock(Editor, format))
    /\ UNCHANGED chain

EndOfBlock(D, b) == Point(b, Len(D[b].children))

\* Carets at block starts, and ranges from a block's start to a block's end
BlockSelections ==
    {NoSelection}
    \cup {[anchor |-> Point(b, 0), focus |-> Point(b, 0)] : b \in 1..Len(children)}
    \cup {[anchor |-> Point(s, 0), focus |-> EndOfBlock(children, e)] :
            s \in 1..Len(children), e \in 1..Len(children)}

InitCodex ==
    /\ chain = CodexChain
    /\ children = initialValue
    /\ selection = NoSelection
    /\ marks = NoMarks
    /\ readers = <<>>
    /\ log = <<>>
    /\ last = NoOp

NextBlock ==
    \/ \E sel \in BlockSelections : Select(sel)
    \/ \E format \in BlockFormats : ToggleBlock(format)

SpecBlock == InitCodex /\ [][NextBlock]_vars

\* C1: after any sequence of toggleBlock calls, with any selection, no list
\* container ('numbered-list' or 'bulleted-list') has a list container as a
\* direct child.
NoNestedLists ==
    \A i \in 1..Len(children) :
        \A k \in 1..(Len(children[i].lists) - 1) :
            ~(children[i].lists[k] \in LIST_TYPES
              /\ children[i].lists[k + 1] \in LIST_TYPES)


\* C1's case: a list was toggled on next to a list of the other type
NoNestedLists_Witness ==
    /\ last.op = "toggleBlock"
    /\ last.arg = "bulleted-list"
    /\ \E i, k \in 1..Len(children) :
        /\ children[i].lists = <<"numbered-list">>
        /\ children[k].lists = <<"bulleted-list">>
        /\ k \in SelectedBlocks(Editor)

NonListFormats == BlockFormats \ LIST_TYPES

\* A block of type format lies in the selection
BlockOfTypeSelected(format) ==
    \E i \in SelectedBlocks(Editor) : children[i].type = format

\* C9: toggleBlock(f), f not a list type, sets every selected block's type to
\* f when no node of type f intersects the selection and to 'paragraph' when
\* one does; the blocks' children, and the other blocks' types, stay.
ToggleSetsType ==
    [][\A f \in NonListFormats :
        ToggleBlock(f) =>
            /\ Len(children') = Len(children)
            /\ \A i \in 1..Len(children) :
                /\ children'[i].children = children[i].children
                /\ children'[i].type =
                     IF i \notin SelectedBlocks(Editor) THEN children[i].type
                     ELSE IF BlockOfTypeSelected(f) THEN "paragraph" ELSE f]_vars

\* C9's case: heading-one was toggled on a paragraph and then off again
ToggleSetsType_Witness ==
    /\ last.op = "toggleBlock"
    /\ last.arg = "heading-one"
    /\ SelectedBlocks(Editor) # {}
    /\ \A i \in SelectedBlocks(Editor) :
        children[i].type = "paragraph" /\ initialValue[i].type = "paragraph"

----------------------------------------------------------------------------
(* Marks *)

\* The first text node of an expanded selection: the one holding the first
\* selected chunk (at a block's end, the block's last one); 0 in an empty block
FirstLeaf(e) ==
    LET p == StartOf(e.selection)
        n == Len(e.children[p.b].children)
    IN  IF p.o < n THEN p.o + 1 ELSE n

\* Editor.marks(editor): null without a selection, editor.marks when set, else
\* the marks of the first text node of a range, or of the caret's text node
Editor_marks(e) ==
    IF ~HasSelection(e.selection) THEN NoMarks
    ELSE IF e.marks.set THEN e.marks
    ELSE LET b == StartOf(e.selection).b
             k == IF isCollapsed(e.selection) THEN CaretLeaf(e) ELSE FirstLeaf(e)
         IN  [set |-> TRUE,
              val |-> IF k = 0 THEN {} ELSE e.children[b].children[k].marks]

\* Transforms.setNodes / unsetNodes on the text of the selection, split: true
setNodes_mark(e, key, on) ==
    [e EXCEPT !.children =
        [b \in 1..Len(@) |->
            [@[b] EXCEPT !.children =
                [k \in 1..Len(@) |->
                    IF InRange(e.selection, b, k)
                    THEN [@[k] EXCEPT !.marks =
                            IF on THEN @ \cup {key} ELSE @ \ {key}]
                    ELSE @[k]]]]]

\* Editor.addMark(editor, key, true)
Editor_addMark(e, key) ==
    IF ~HasSelection(e.selection) THEN e
    ELSE IF ~isCollapsed(e.selection) THEN setNodes_mark(e, key, TRUE)
    ELSE [e EXCEPT !.marks = [set |-> TRUE, val |-> Editor_marks(e).val \cup {key}]]

\* Editor.removeMark(editor, key)
Editor_removeMark(e, key) ==
    IF ~HasSelection(e.selection) THEN e
    ELSE IF ~isCollapsed(e.selection) THEN setNodes_mark(e, key, FALSE)
    ELSE [e EXCEPT !.marks = [set |-> TRUE, val |-> Editor_marks(e).val \ {key}]]

\* isMarkActive answering whether any mark at all is set
isMarkActive_anyMark(e, format) ==
    LET ms == Editor_marks(e) IN IF ms.set THEN ms.val # {} ELSE FALSE

isMarkActive(e, format) ==
    LET ms == Editor_marks(e) IN IF ms.set THEN format \in ms.val ELSE FALSE

toggleMark(e, format) ==
    LET isActive == isMarkActive(e, format)
    IN  IF isActive THEN Editor_removeMark(e, format)
        ELSE Editor_addMark(e, format)

\* MarkButton's onMouseDown, and the HOTKEYS of onKeyDown
ToggleMark(format) ==
    /\ last' = [op |-> "toggleMark", arg |-> format, files |-> <<>>]
    /\ SetEditor(toggleMark(Editor, format))
    /\ UNCHANGED chain

\* Carets and ranges, in either direction, within the first block
TextSelections ==
    {NoSelection}
    \cup {[anchor |-> Point(1, a), focus |-> Point(1, f)] :
            a \in 0..Len(children[1].children), f \in 0..Len(children[1].children)}

NextMark ==
    \/ \E sel \in TextSelections : Select(sel)
    \/ \E format \in MarkFormats : ToggleMark(format)

SpecMark == InitCodex /\ [][NextMark]_vars

\* toggleMark(editor, format) called twice in a row restores every text
\* node's value of the mark and the effective mark set
TwiceRestores(format) ==
    LET e2 == toggleMark(toggleMark(Editor, format), format)
    IN  /\ e2.children = children
        /\ Editor_marks(e2).val = Editor_marks(Editor).val

UniformMark(format) ==
    \A b1, b2 \in 1..Len(children) :
        \A k1 \in 1..Len(children[b1].children), k2 \in 1..Len(children[b2].children) :
            InRange(selection, b1, k1) /\ InRange(selection, b2, k2) =>
                (format \in children[b1].children[k1].marks
                    <=> format \in children[b2].children[k2].marks)

----------------------------------------------------------------------------
(* Inline transforms: links and text *)

MaxOf(S) == CHOOSE x \in S : \A y \in S : y <= x

WithLinks(kids, W) ==
    [k \in 1..Len(kids) |-> [kids[k] EXCEPT !.links = W[k].c, !.join = W[k].j]]

\* Setting the selection clears the pending marks (set_selection)
SetSelection(e, sel) ==
    [e EXCEPT !.selection = sel,
              !.marks = IF sel # e.selection THEN NoMarks ELSE @]

CaretAt(p) == [anchor |-> p, focus |-> p]

Logged(e, fn, arg) == [e EXCEPT !.log = Append(@, [fn |-> fn, arg |-> arg])]

BlockIsVoid(e, b) == isVoid(e.chain, e.children[b].type)

\* Transforms.unwrapNodes(editor, {match: n => n.type === 'link'}): every
\* lowest link the selection lies in is removed whole, its children lifted
unwrapNodes_link(e) ==
    [e EXCEPT !.children =
        [b \in 1..Len(e.children) |->
            LET S == SelectedLeaves(e, b)
                kids == e.children[b].children
            IN  IF S = {} THEN e.children[b]
                ELSE [e.children[b] EXCEPT !.children =
                        WithLinks(kids, UnwrapRange(Wraps(kids, "links"),
                                                    MinOf(S), MaxOf(S)))]]]

\* Transforms.wrapNodes(editor, link, {split: true}): in every block of the
\* selection, the selected text is put into one new link element
wrapNodes_link(e, url) ==
    [e EXCEPT !.children =
        [b \in 1..Len(e.children) |->
            LET S == SelectedLeaves(e, b)
                kids == e.children[b].children
            IN  IF S = {} \/ BlockIsVoid(e, b) THEN e.children[b]
                ELSE [e.children[b] EXCEPT !.children =
                        WithLinks(kids, WrapRange(Wraps(kids, "links"),
                                                  MinOf(S), MaxOf(S), url))]]]

\* Transforms.collapse(editor, {edge: 'end'})
Transforms_collapse(e) ==
    IF ~HasSelection(e.selection) THEN e
    ELSE SetSelection(e, CaretAt(EndOf(e.selection)))

\* A new chunk after chunk o of block b, inside the first p links around
\* chunk o and inside the new links extra
InsertChunk(e, b, o, p, extra, text, ms) ==
    LET kids == e.children[b].children
        new == [text |-> text, marks |-> ms,
                links |-> (IF o = 0 THEN <<>> ELSE SubSeq(kids[o].links, 1, p)) \o extra,
                join |-> IF o = 0 THEN 0 ELSE p]
    IN  [e EXCEPT !.children[b].children =
            [k \in 1..(Len(kids) + 1) |->
                IF k <= o THEN kids[k]
                ELSE IF k = o + 1 THEN new
                ELSE [kids[k - 1] EXCEPT !.join =
                        IF k = o + 2 THEN Min2(@, new.join) ELSE @]]]

\* Transforms.insertNodes(editor, link) at a caret: the text node is split at
\* the caret and the link, holding one text node, put there; the caret moves
\* to the link's end.  Nothing is inserted into a void element.
insertNodes_link(e, url) ==
    LET b == e.selection.anchor.b
        o == e.selection.anchor.o
        p == IF o = 0 THEN 0 ELSE Len(e.children[b].children[o].links)
    IN  IF BlockIsVoid(e, b) THEN e
        ELSE SetSelection(InsertChunk(e, b, o, p, <<url>>, url, {}),
                          CaretAt(Point(b, o + 1)))

\* Transforms.delete(editor) of an expanded selection
deleteRange(e) ==
    LET s == StartOf(e.selection)
        t == EndOf(e.selection)
        D == e.children
        tail == SubSeq(D[t.b].children, t.o + 1, Len(D[t.b].children))
        cut == IF s.b = t.b
               THEN MinOf({D[s.b].children[x].join :
                              x \in (s.o + 1)..Min2(t.o + 1, Len(D[s.b].children))})
               ELSE 0
        tail2 == [k \in 1..Len(tail) |->
                    IF k = 1 THEN [tail[k] EXCEPT !.join = Min2(@, cut)] ELSE tail[k]]
        merged == [D[s.b] EXCEPT !.children = SubSeq(@, 1, s.o) \o tail2]
        gone == t.b - s.b
        after(i) == IF i = s.b + 1 /\ gone > 0
                    THEN [D[i + gone] EXCEPT !.join =
                            MinOf({D[x].join : x \in (s.b + 1)..(i + gone)})]
                    ELSE D[i + gone]
    IN  SetSelection(
            [e EXCEPT !.children =
                [i \in 1..(Len(D) - gone) |->
                    IF i < s.b THEN D[i] ELSE IF i = s.b THEN merged ELSE after(i)]],
            CaretAt(s))

\* The marks of the text node a caret is in
LeafMarks(e) ==
    LET k == CaretLeaf(e)
    IN  IF k = 0 THEN {} ELSE e.children[e.selection.anchor.b].children[k].marks

\* Text put at the caret of e: after chunk o, inside the first p links around it
TextAtCaret(e, p, text, ms) ==
    LET b == e.selection.anchor.b
        o == e.selection.anchor.o
    IN  IF BlockIsVoid(e, b) \/ text = "" THEN e
        ELSE [InsertChunk(e, b, o, p, <<>>, text, ms)
                EXCEPT !.selection = CaretAt(Point(b, o + 1))]

LinksAtCaret(e) ==
    LET p == e.selection.anchor
    IN  IF p.o = 0 THEN 0 ELSE Len(e.children[p.b].children[p.o].links)

\* Transforms.insertText(editor, text): the selected content is deleted and
\* the text goes into the text node the caret is in
Transforms_insertText(e, text) ==
    IF ~HasSelection(e.selection) THEN e
    ELSE LET e1 == IF isCollapsed(e.selection) THEN e ELSE deleteRange(e)
         IN  TextAtCaret(e1, LinksAtCaret(e1), text, LeafMarks(e1))

\* The caret is at the end of the outermost inline element around it
AtEndOfInline(e) ==
    LET p == e.selection.anchor
        kids == e.children[p.b].children
    IN  /\ isCollapsed(e.selection)
        /\ p.o > 0
        /\ kids[p.o].links # <<>>
        /\ (p.o = Len(kids) \/ kids[p.o + 1].join = 0)

\* The document D2 with the new block at index at, which is selected
PutBlock(e, D2, at) ==
    SetSelection([e EXCEPT !.children = D2], CaretAt(Point(at, 0)))

NewBlock(type, url, lists, join) ==
    [type |-> type, lists |-> lists, join |-> join, children |-> <<>>, url |-> url]

\* The new block after block b, in the list containers of block b
BlockAfter(D, b, type, url) ==
    SubSeq(D, 1, b)
        \o <<NewBlock(type, url, D[b].lists, Len(D[b].lists))>>
        \o SubSeq(D, b + 1, Len(D))

\* The new block before block b
BlockBefore(D, b, type, url) ==
    SubSeq(D, 1, b - 1)
        \o <<NewBlock(type, url, D[b].lists, D[b].join),
             [D[b] EXCEPT !.join = Len(D[b].lists)]>>
        \o SubSeq(D, b + 1, Len(D))

\* Block b split after its chunk o, the new block between the halves
BlockSplit(D, b, o, type, url) ==
    SubSeq(D, 1, b - 1)
        \o <<[D[b] EXCEPT !.children = SubSeq(@, 1, o)],
             NewBlock(type, url, D[b].lists, Len(D[b].lists)),
             [D[b] EXCEPT
                !.join = Len(D[b].lists),
                !.children =
                    [k \in 1..(Len(D[b].children) - o) |->
                        IF k = 1 THEN [D[b].children[o + 1] EXCEPT !.join = 0]
                        ELSE D[b].children[o + k]]]>>
        \o SubSeq(D, b + 1, Len(D))

\* The new block at the point (b, o): after block b at its end or in a void,
\* before it at its start, else splitting it
insertNodes_at(e, b, o, type, url) ==
    IF BlockIsVoid(e, b) \/ o = Len(e.children[b].children)
    THEN PutBlock(e, BlockAfter(e.children, b, type, url), b + 1)
    ELSE IF o = 0 THEN PutBlock(e, BlockBefore(e.children, b, type, url), b)
    ELSE PutBlock(e, BlockSplit(e.children, b, o, type, url), b + 1)

\* Transforms.insertNodes(editor, block) with the editor's selection: a range
\* is deleted first; at a caret the block around it is split and the new block
\* put there; without a selection the new block goes to the end of the
\* document; the new block is selected
insertNodes_block(e, type, url) ==
    IF e.children = <<>> THEN PutBlock(e, <<NewBlock(type, url, <<>>, 0)>>, 1)
    ELSE IF ~HasSelection(e.selection)
    THEN insertNodes_at(e, Len(e.children),
                        Len(e.children[Len(e.children)].children), type, url)
    ELSE IF isCollapsed(e.selection)
    THEN insertNodes_at(e, e.selection.anchor.b, e.selection.anchor.o, type, url)
    ELSE insertNodes_at(deleteRange(e), StartOf(e.selection).b,
                        StartOf(e.selection).o, type, url)

----------------------------------------------------------------------------
(* Links *)

\* is-url and image-extensions on the strings the model types and pastes
Urls == {"http://u", "http://u.png"}

isUrl(text) == text \in Urls

isImageUrl(url) ==
    IF url = "" THEN FALSE
    ELSE IF ~isUrl(url) THEN FALSE
    ELSE url = "http://u.png"

isLinkActive(e) == NodeOfType(e, "link")

unwrapLink(e) == unwrapNodes_link(e)

\* wrapLink without the removal of the link the selection is in
wrapLink_noUnwrap(e, url) ==
    IF HasSelection(e.selection) /\ isCollapsed(e.selection)
    THEN insertNodes_link(e, url)
    ELSE Transforms_collapse(wrapNodes_link(e, url))

wrapLink(e, url) ==
    LET e1 == IF isLinkActive(e) THEN unwrapLink(e) ELSE e
        collapsed == HasSelection(e1.selection) /\ isCollapsed(e1.selection)
    IN  IF collapsed THEN insertNodes_link(e1, url)
        ELSE Transforms_collapse(wrapNodes_link(e1, url))

insertLink(e, url) == IF HasSelection(e.selection) THEN wrapLink(e, url) ELSE e

insertImage(e, url) == insertNodes_block(e, "image", url)

----------------------------------------------------------------------------
(* The base editor's insertText, insertData and deleteBackward *)

\* createEditor's insertText: a caret at the end of an inline element is
\* moved behind it, the text is inserted with the pending marks, which are
\* then cleared
base_insertText(e, text) ==
    LET e0 == Logged(e, "base.insertText", text)
        e1 == IF isCollapsed(e0.selection) THEN e0 ELSE deleteRange(e0)
        out == AtEndOfInline(e1)
        ms == IF e.marks.set THEN e.marks.val
              ELSE IF out THEN {} ELSE LeafMarks(e1)
    IN  IF ~HasSelection(e.selection) THEN e0
        ELSE [TextAtCaret(e1, IF out THEN 0 ELSE LinksAtCaret(e1), text, ms)
                EXCEPT !.marks = NoMarks]

\* withReact's insertData: the payload's plain text is inserted as text
base_insertData(e, data) ==
    LET e0 == Logged(e, "base.insertData", data.text)
    IN  IF data.text # "" THEN Transforms_insertText(e0, data.text) ELSE e0

\* createEditor's deleteBackward: Transforms.delete(editor, {unit, reverse: true}).
\* A range is deleted; a caret deletes the chunk before it (the block's
\* text before it for unit 'line'), or at a block's start merges the block
\* into the one before
base_deleteBackward(e, unit) ==
    LET e0 == Logged(e, "base.deleteBackward", unit)
        p == e.selection.anchor
        D == e.children
        from == IF unit = "line" THEN 0 ELSE p.o - 1
        joined == [D[p.b - 1] EXCEPT !.children =
                      @ \o [k \in 1..Len(D[p.b].children) |->
                              IF k = 1 THEN [D[p.b].children[k] EXCEPT !.join = 0]
                              ELSE D[p.b].children[k]]]
    IN  IF ~HasSelection(e.selection) THEN e0
        ELSE IF ~isCollapsed(e.selection) THEN deleteRange(e0)
        ELSE IF p.o > 0
        THEN deleteRange([e0 EXCEPT !.selection =
                            [anchor |-> Point(p.b, from), focus |-> p]])
        ELSE IF p.b = 1 THEN e0
        ELSE SetSelection(
                [e0 EXCEPT !.children =
                    [i \in 1..(Len(D) - 1) |->
                        IF i < p.b - 1 THEN D[i]
                        ELSE IF i = p.b - 1 THEN joined
                        ELSE IF i = p.b
                        THEN [D[i + 1] EXCEPT !.join = Min2(@, D[p.b].join)]
                        ELSE D[i + 1]]],
                CaretAt(Point(p.b - 1, Len(D[p.b - 1].children))))

----------------------------------------------------------------------------
(* The feature modules' overrides, and the composed editor's methods *)

RECURSIVE insertText(_, _, _)
RECURSIVE insertData(_, _, _)
RECURSIVE deleteBackward(_, _, _)

\* withLinks.insertText putting a URL in as a link and as plain text too
withLinks_insertText_alsoPlain(prev, e, text) ==
    LET e1 == Logged(e, "withLinks.insertText", text)
    IN  IF text # "" /\ isUrl(text) THEN insertText(prev, wrapLink(e1, text), text)
        ELSE insertText(prev, e1, text)

\* withLinks: editor.insertText; prev is the editor withLinks was applied to
withLinks_insertText(prev, e, text) ==
    LET e1 == Logged(e, "withLinks.insertText", text)
    IN  IF text # "" /\ isUrl(text) THEN wrapLink(e1, text)
        ELSE insertText(prev, e1, text)

\* withLinks.insertData handing every payload with files to the next module
withLinks_insertData_filesFirst(prev, e, data) ==
    LET e1 == Logged(e, "withLinks.insertData", data.text)
        text == data.text
    IN  IF text # "" /\ isUrl(text) /\ Len(data.files) = 0 THEN wrapLink(e1, text)
        ELSE insertData(prev, e1, data)

\* withLinks: editor.insertData
withLinks_insertData(prev, e, data) ==
    LET e1 == Logged(e, "withLinks.insertData", data.text)
        text == data.text
    IN  IF text # "" /\ isUrl(text) THEN wrapLink(e1, text)
        ELSE insertData(prev, e1, data)

\* A single FileReader, for the first image file only
NewReaders_firstOnly(files) ==
    LET images == SelectSeq(files, LAMBDA file : file.mime = "image")
    IN  [i \in 1..Min2(1, Len(images)) |->
            [result |-> images[i].dataURL, state |-> "loading"]]

\* The FileReaders withImages.insertData creates: one for each file whose
\* media type is image/..., reading
NewReaders(files) ==
    LET images == SelectSeq(files, LAMBDA file : file.mime = "image")
    IN  [i \in 1..Len(images) |-> [result |-> images[i].dataURL, state |-> "loading"]]

\* withImages: editor.insertData
withImages_insertData(prev, e, data) ==
    LET e1 == Logged(e, "withImages.insertData", data.text)
        text == data.text
        files == data.files
    IN  IF Len(files) > 0 THEN [e1 EXCEPT !.readers = @ \o NewReaders(files)]
        ELSE IF isImageUrl(text) THEN insertImage(e1, text)
        ELSE insertData(prev, e1, data)

\* Transforms.setNodes(editor, {type: 'paragraph'}, {match: n => n.type === 'check-list-item'})
setNodes_checklist(e) ==
    [e EXCEPT !.children =
        [i \in 1..Len(@) |->
            IF i \in SelectedBlocks(e) /\ @[i].type = "check-list-item"
            THEN [@[i] EXCEPT !.type = "paragraph"] ELSE @[i]]]

\* withChecklists.deleteBackward without the return after setNodes
withChecklists_deleteBackward_fallThrough(prev, e, unit) ==
    LET e1 == Logged(e, "withChecklists.deleteBackward", unit)
        sel == e.selection
        match == NodeOfType(e, "check-list-item")
        start == Point(sel.anchor.b, 0)
    IN  IF HasSelection(sel) /\ isCollapsed(sel) /\ match /\ sel.anchor = start
        THEN deleteBackward(prev, setNodes_checklist(e1), unit)
        ELSE deleteBackward(prev, e1, unit)

\* withChecklists: editor.deleteBackward
withChecklists_deleteBackward(prev, e, unit) ==
    LET e1 == Logged(e, "withChecklists.deleteBackward", unit)
        sel == e.selection
        match == NodeOfType(e, "check-list-item")
        start == Point(sel.anchor.b, 0)
    IN  IF HasSelection(sel) /\ isCollapsed(sel) /\ match /\ sel.anchor = start
        THEN setNodes_checklist(e1)
        ELSE deleteBackward(prev, e1, unit)

\* editor.insertText of the editor composed as ch
insertText(ch, e, text) ==
    IF ch = <<>> THEN base_insertText(e, text)
    ELSE IF ch[Len(ch)] = "withLinks" THEN withLinks_insertText(Front(ch), e, text)
    ELSE insertText(Front(ch), e, text)

\* editor.insertData of the editor composed as ch
insertData(ch, e, data) ==
    IF ch = <<>> THEN base_insertData(e, data)
    ELSE IF ch[Len(ch)] = "withLinks" THEN withLinks_insertData(Front(ch), e, data)
    ELSE IF ch[Len(ch)] = "withImages" THEN withImages_insertData(Front(ch), e, data)
    ELSE insertData(Front(ch), e, data)

\* editor.deleteBackward of the editor composed as ch
deleteBackward(ch, e, unit) ==
    IF ch = <<>> THEN base_deleteBackward(e, unit)
    ELSE IF ch[Len(ch)] = "withChecklists"
    THEN withChecklists_deleteBackward(Front(ch), e, unit)
    ELSE deleteBackward(Front(ch), e, unit)

----------------------------------------------------------------------------
(* Input actions *)

\* Blocks and chunks of a document
Size(D) == Len(D) + SumOver([i \in 1..Len(D) |-> Len(D[i].children)], 1..Len(D))

\* The document stays within MaxInserts insertions of its initial size
Bounded(D) == Size(D) <= Size(initialValue) + MaxInserts

\* Typing, through Editable: editor.insertText(text)
InsertText(text) ==
    /\ last' = [op |-> "insertText", arg |-> text, files |-> <<>>]
    /\ SetEditor(insertText(chain, Editor, text))
    /\ Bounded(children')
    /\ UNCHANGED chain

\* A paste or a drop, through Editable: editor.insertData(data)
InsertData(data) ==
    /\ Len(readers) + Len(data.files) <= MaxReaders
    /\ last' = [op |-> "insertData", arg |-> data.text, files |-> data.files]
    /\ SetEditor(insertData(chain, Editor, data))
    /\ Bounded(children')
    /\ UNCHANGED chain

\* Backspace, through Editable: editor.deleteBackward(unit)
DeleteBackward(unit) ==
    /\ last' = [op |-> "deleteBackward", arg |-> unit, files |-> <<>>]
    /\ SetEditor(deleteBackward(chain, Editor, unit))
    /\ UNCHANGED chain

\* LinkButton's onMouseDown, with the URL the prompt returned
InsertLink(url) ==
    /\ last' = [op |-> "insertLink", arg |-> url, files |-> <<>>]
    /\ SetEditor(insertLink(Editor, url))
    /\ Bounded(children')
    /\ UNCHANGED chain

\* InsertImageButton's onMouseDown, with the URL the prompt returned
InsertImage(url) ==
    /\ last' = [op |-> "insertImage", arg |-> url, files |-> <<>>]
    /\ SetEditor(insertImage(Editor, url))
    /\ Bounded(children')
    /\ UNCHANGED chain

\* A FileReader's 'load' listener: insertImage(editor, reader.result)
Load(i) ==
    /\ readers[i].state = "loading"
    /\ last' = [op |-> "load", arg |-> readers[i].result, files |-> <<>>]
    /\ SetEditor(insertImage([Editor EXCEPT !.readers[i].state = "loaded"],
                             readers[i].result))
    /\ UNCHANGED chain

\* A read that fails: no 'load' event, the listener never runs
ReadError(i) ==
    /\ readers[i].state = "loading"
    /\ last' = [op |-> "error", arg |-> readers[i].result, files |-> <<>>]
    /\ readers' = [readers EXCEPT ![i].state = "failed"]
    /\ log' = <<>>
    /\ UNCHANGED <<chain, children, selection, marks>>

Texts == {"hi", "http://u"}

File(mime, dataURL) == [mime |-> mime, dataURL |-> dataURL]

Payload(text, files) == [text |-> text, files |-> files]

\* Pasted text, plain or a URL
TextPayloads == {Payload(text, <<>>) : text \in {"hi", "http://u", "http://u.png"}}

\* Dropped files, with or without plain text beside them
FilePayloads ==
    {Payload("", files) :
        files \in {<<File("image", "data:A")>>,
                   <<File("image", "data:A"), File("image", "data:B")>>,
                   <<File("application", "data:P")>>,
                   <<File("image", "data:B"), File("application", "data:P")>>}}
    \cup {Payload("http://u.png", <<File("image", "data:A")>>)}

Payloads == TextPayloads \cup FilePayloads \cup {Payload("", <<>>)}

Units == {"character", "line"}

----------------------------------------------------------------------------
(* The link facet: typing, pasting and the link and image buttons *)

\* Carets and forward ranges within the first block
LinkSelections ==
    {[anchor |-> Point(1, a), focus |-> Point(1, f)] :
        a \in 0..Len(children[1].children), f \in 0..Len(children[1].children)}
    \ {sel \in TextSelections : ~Before(sel.anchor, sel.focus)}

NextLink ==
    \/ \E sel \in LinkSelections : Select(sel)
    \/ \E url \in {"http://v"} : InsertLink(url)
    \/ \E text \in Texts : (isUrl(text) \/ isCollapsed(selection)) /\ InsertText(text)
    \/ InsertData(Payload("http://u.png", <<>>))
    \/ InsertImage("http://i")

SpecLink == InitCodex /\ [][NextLink]_vars

\* The calls of fn the last operation made
Calls(l, fn) == Cardinality({i \in 1..Len(l) : l[i].fn = fn})

\* The link elements of a document: one for each first text node of a link
LinkCount(D) ==
    SumOver([i \in 1..Len(D) |->
                Cardinality({k \in 1..Len(D[i].children) :
                                /\ D[i].children[k].links # <<>>
                                /\ D[i].children[k].join < Len(D[i].children[k].links)})],
            1..Len(D))

\* C7: after any sequence of insertLink, URL insertText and URL insertData
\* calls, with any selection, no link element lies inside another link element.
NoNestedLinks ==
    \A b \in 1..Len(children) :
        \A k \in 1..Len(children[b].children) :
            Len(children[b].children[k].links) <= 1

\* C7's case: a link typed in as a URL was selected together with its
\* neighbour and insertLink put one new link around both
NoNestedLinks_Witness ==
    /\ last.op = "insertLink"
    /\ \E k \in 1..(Len(children[1].children) - 1) :
        /\ children[1].children[k].links = <<"http://v">>
        /\ children[1].children[k + 1].links = <<"http://v">>
        /\ children[1].children[k + 1].join = 1
        /\ "http://u" \in {children[1].children[k].text, children[1].children[k + 1].text}

\* The caret is in a void element
CaretInVoid == HasSelection(selection) /\ BlockIsVoid(Editor, selection.anchor.b)

\* insertText(text) at the caret (b, o): text becomes one new text node there,
\* the only child of a new link with url text when text is a URL and the base
\* insertText is not called; otherwise the base insertText puts it in as plain
\* text and the document has as many links as before
TextGoesInAtCaret(text) ==
    LET b == selection.anchor.b
        o == selection.anchor.o
        kids == children[b].children
        kids2 == children'[b].children
    IN  /\ Len(children') = Len(children)
        /\ \A i \in 1..Len(children) : i # b => children'[i] = children[i]
        /\ Len(kids2) = Len(kids) + 1
        /\ \A k \in 1..Len(kids2) :
            kids2[k].text = IF k <= o THEN kids[k].text
                            ELSE IF k = o + 1 THEN text ELSE kids[k - 1].text
        /\ IF isUrl(text)
           THEN /\ kids2[o + 1].links = <<text>>
                /\ kids2[o + 1].join = 0
                /\ o + 2 <= Len(kids2) => kids2[o + 2].join = 0
                /\ Calls(log', "base.insertText") = 0
           ELSE /\ LinkCount(children') = LinkCount(children)
                /\ Calls(log', "base.insertText") = 1

\* C8 as claimed: insertText(text) with a collapsed selection inserts a URL as
\* one link holding it, and any other text as plain text
InsertTextLinksUrl ==
    [][\A text \in Texts :
        (InsertText(text) /\ HasSelection(selection) /\ isCollapsed(selection))
            => TextGoesInAtCaret(text)]_vars

\* C8 amended: insertText(text) with a collapsed selection outside a void
\* element inserts a URL as one link whose only child is a text node with that
\* text, and not as plain characters too; text that is not a URL is inserted
\* as plain text and creates no link.
InsertTextLinksUrlOutsideVoid ==
    [][\A text \in Texts :
        (InsertText(text) /\ HasSelection(selection) /\ isCollapsed(selection)
            /\ ~CaretInVoid)
            => TextGoesInAtCaret(text)]_vars

\* C8's case: a URL was typed at a caret and is now a link of its own
InsertTextLinksUrlOutsideVoid_Witness ==
    /\ last.op = "insertText"
    /\ last.arg = "http://u"
    /\ HasSelection(selection)
    /\ selection.anchor.o > 0
    /\ LET chunk == children[selection.anchor.b].children[selection.anchor.o]
       IN  chunk.text = "http://u" /\ chunk.links = <<"http://u">>

----------------------------------------------------------------------------

(* The data facet: pastes, drops and the reads they start *)

\* A caret at the document's end, and the first block as a range
DataSelections ==
    {CaretAt(EndOfBlock(children, Len(children))),
     [anchor |-> Point(1, 0), focus |-> EndOfBlock(children, 1)]}

NextData ==
    \/ \E sel \in DataSelections : Select(sel)
    \/ InsertText("hi")
    \/ \E data \in Payloads : InsertData(data)
    \/ \E i \in 1..Len(readers) : Load(i)
    \/ \E i \in 1..Len(readers) : ReadError(i)

SpecData == InitCodex /\ [][NextData]_vars

ImageFiles(files) == SelectSeq(files, LAMBDA file : file.mime = "image")

\* The urls of the image elements of a document, in document order
ImageUrls(D) ==
    LET images == SelectSeq(D, LAMBDA blk : blk.type = "image")
    IN  [k \in 1..Len(images) |-> images[k].url]

DataUrls == {"data:A", "data:B"}

\* The urls of the images that came from file reads
DataImageUrls(D) == SelectSeq(ImageUrls(D), LAMBDA url : url \in DataUrls)

Without(s, k) == SubSeq(s, 1, k - 1) \o SubSeq(s, k + 1, Len(s))

\* A payload with files that reaches withImages.insertData starts one read
\* for each of its image files and inserts nothing
DropSchedules(data) ==
    LET images == ImageFiles(data.files)
    IN  /\ readers' = readers \o [i \in 1..Len(images) |->
                                    [result |-> images[i].dataURL, state |-> "loading"]]
        /\ children' = children

\* The completion of read i inserts one image with the read's result as url,
\* at the selection of that moment (at the document's end without one), and
\* selects it; the other images stay
LoadInserts(i) ==
    LET at == selection'.anchor.b
        from == StartOf(selection).b
    IN  /\ selection' = CaretAt(Point(at, 0))
        /\ at \in 1..Len(children')
        /\ children'[at].type = "image"
        /\ children'[at].url = readers[i].result
        /\ Without(children', at) # children'
        /\ ImageUrls(Without(children', at)) = ImageUrls(children)
        /\ IF HasSelection(selection) THEN at \in {from, from + 1}
           ELSE at = Len(children')
        /\ readers' = [readers EXCEPT ![i].state = "loaded"]

\* C5: a payload with N image files given to withImages.insertData starts N
\* reads; each read that completes inserts exactly one image with its own
\* result as url at the selection current at that moment, whatever was done
\* since the drop; no other step, a failed read among them, inserts an image
\* from a file.
ReadsInsertImages ==
    [][/\ \A data \in Payloads :
            (InsertData(data) /\ Len(data.files) > 0
                /\ Calls(log', "withImages.insertData") = 1)
                => DropSchedules(data)
       /\ \A i \in 1..Len(readers) : Load(i) => LoadInserts(i)
       /\ (\A i \in 1..Len(readers) : ~Load(i))
            => DataImageUrls(children') = DataImageUrls(children)]_vars

\* C5's case: two files were dropped at once, the selection was moved, and
\* the image of the read that completed last stands before the other's
ReadsInsertImages_Witness ==
    /\ last.op = "load"
    /\ Len(readers) = 2
    /\ readers[1].state = "loaded"
    /\ readers[2].state = "loaded"
    /\ readers[1].result # readers[2].result
    /\ Len(DataImageUrls(children)) = 2
    /\ DataImageUrls(children)[1] = last.arg

\* C6 as claimed: text that is not a URL reaches the base insertText once, and
\* a payload that no module turns into a link or an image (its text no URL,
\* no image file among its files) reaches the base insertData once
InputNeverDiscarded ==
    /\ (last.op = "insertText" /\ ~isUrl(last.arg))
            => Calls(log, "base.insertText") = 1
    /\ (last.op = "insertData" /\ ~isUrl(last.arg)
            /\ ImageFiles(last.files) = <<>>)
            => Calls(log, "base.insertData") = 1

\* The selection exists and no block of it is a void element
SelectionOutsideVoid ==
    /\ HasSelection(selection)
    /\ \A b \in SelectedBlocks(Editor) : ~BlockIsVoid(Editor, b)

HasLink(D, url) ==
    \E b \in 1..Len(D) : \E k \in 1..Len(D[b].children) :
        D[b].children[k].links = <<url>>

\* insertData evaluates withLinks' test first, and withImages' override runs
\* only when withLinks delegates; a payload whose text is a URL starts no read
\* and inserts no image
LinksBeforeImages(data) ==
    /\ log' # <<>>
    /\ log'[1].fn = "withLinks.insertData"
    /\ \A k \in 1..Len(log') : log'[k].fn = "withImages.insertData" => k = 2
    /\ Calls(log', "withImages.insertData") = (IF isUrl(data.text) THEN 0 ELSE 1)
    /\ isUrl(data.text) =>
        /\ readers' = readers
        /\ ImageUrls(children') = ImageUrls(children)

\* C10 as claimed: the link module's test comes first, and a payload whose
\* text is a URL always produces a link
UrlPayloadAlwaysLinks ==
    [][\A data \in Payloads :
        InsertData(data) =>
            /\ LinksBeforeImages(data)
            /\ isUrl(data.text) => HasLink(children', data.text)]_vars

\* C10 amended: every insertData call evaluates the link module's test before
\* the image module's, whose insertData runs only when the link module
\* delegates; a payload whose text is a URL never produces an image or a file
\* read, and produces a link whenever there is a selection and it lies
\* outside void elements.
UrlPayloadLinksOutsideVoid ==
    [][\A data \in Payloads :
        InsertData(data) =>
            /\ LinksBeforeImages(data)
            /\ (isUrl(data.text) /\ SelectionOutsideVoid)
                    => HasLink(children', data.text)]_vars

\* C10's case: a URL ending in an image extension was pasted together with an
\* image file, and became a link
UrlPayloadLinksOutsideVoid_Witness ==
    /\ last.op = "insertData"
    /\ last.arg = "http://u.png"
    /\ last.files # <<>>
    /\ log = <<[fn |-> "withLinks.insertData", arg |-> "http://u.png"]>>
    /\ HasLink(children, "http://u.png")
    /\ readers = <<>>

----------------------------------------------------------------------------

(* The checklist facet: backspace *)

ChecklistSelections ==
    BlockSelections
    \cup {CaretAt(Point(b, o)) : b \in 1..Len(children), o \in {0, 1}}

NextChecklist ==
    \/ \E sel \in ChecklistSelections : Select(sel)
    \/ \E unit \in Units : DeleteBackward(unit)
    \/ ToggleBlock("check-list-item")

SpecChecklist == InitCodex /\ [][NextChecklist]_vars

\* The caret is at the start of the check-list-item around it
AtChecklistStart ==
    /\ HasSelection(selection)
    /\ isCollapsed(selection)
    /\ selection.anchor.o = 0
    /\ children[selection.anchor.b].type = "check-list-item"

\* C4: deleteBackward with the caret at the start of a check-list-item makes
\* that item a paragraph, deletes nothing and does not call the previous
\* deleteBackward; in every other case the previous deleteBackward is called
\* exactly once with the same unit and the document is what it alone yields.
BackspaceAtChecklistStart ==
    [][\A unit \in Units :
        DeleteBackward(unit) =>
            IF AtChecklistStart
            THEN /\ children' =
                        [children EXCEPT ![selection.anchor.b].type = "paragraph"]
                 /\ selection' = selection
                 /\ Calls(log', "base.deleteBackward") = 0
            ELSE /\ Calls(log', "base.deleteBackward") = 1
                 /\ \A k \in 1..Len(log') :
                        log'[k].fn = "base.deleteBackward" => log'[k].arg = unit
                 /\ children' = base_deleteBackward(Editor, unit).children
                 /\ selection' = base_deleteBackward(Editor, unit).selection]_vars

\* C4's case: backspace at the start of initialValue's check-list-item made
\* it a paragraph and left its text
BackspaceAtChecklistStart_Witness ==
    /\ last.op = "deleteBackward"
    /\ Calls(log, "base.deleteBackward") = 0
    /\ Len(children) = Len(initialValue)
    /\ HasSelection(selection)
    /\ selection = CaretAt(Point(selection.anchor.b, 0))
    /\ initialValue[selection.anchor.b].type = "check-list-item"
    /\ children[selection.anchor.b].type = "paragraph"
    /\ children[selection.anchor.b].children = initialValue[selection.anchor.b].children

====
